---- MODULE Spec2Model ----
(***************************************************************************)
(* The file-persisted publish/subscribe broker of src/src/fileSystem.ts.  *)
(*                                                                         *)
(* The broker runs on one JavaScript event loop: code between two awaits   *)
(* runs without interruption, and every readJSON / writeJSON / setTimeout  *)
(* / handler call is a suspension point at which any other pending         *)
(* operation may run.  One action of this module is therefore one          *)
(* completion of a pending operation together with the code that runs up   *)
(* to the next suspension point:                                           *)
(*   - a read takes its snapshot of the file when it completes;            *)
(*   - a write replaces the file when it completes;                        *)
(*   - completion order of pending operations is not constrained (the      *)
(*     code takes no lock and the file system promises no order), and no   *)
(*     real-time bound relates the 5000 ms timer to I/O latency.           *)
(* A process restart empties the in-memory state and keeps the files.      *)
(***************************************************************************)
EXTENDS Integers, Sequences, FiniteSets, TLC

\* ------------------------------------------------------------- bounds
MaxPublish == 2
MaxRestarts == 1
PublishOnce == 1

\* -------------------------------------------------- program constants
\* while (!acked && triesCount < 5)
MaxRetries == 5

\* Two members of enum Domain and one of enum Topic.
Domains == {"PAYMENT", "INVENTORY"}
Topics == {"ORDER_CREATED"}

\* uuid(): the k-th call of publish in the history of the files gets id k.
EventIds == 1..MaxPublish

\* The executeEventHandler calls of one process, numbered in call order:
\* a subscription makes one per queue entry, a publish one per listener.
LoopIds == 1..(4 * MaxPublish)

\* What the application passes to the k-th publish call.
PublishContent(k) == [x |-> k]
PublishParentId(k) == "root"

\* readJSON resolves null for a file that does not exist; a document d that
\* exists is read as <<d>>.
Null == <<>>

\* `events-${topic}.json`
EventsFile(t) == <<"events", t>>
\* A queue file name that leaves the subscriber out.
QueueFileOfTopic(s, t) == <<"queue", "PAYMENT", t>>
\* `queue-${subscriber}-${topic}.json`
QueueFile(s, t) == <<"queue", s, t>>
\* dead-letter-queue.json
DeadLetterFile == <<"dead-letter-queue">>
FileNames ==
    {EventsFile(t) : t \in Topics}
        \cup {QueueFile(s, t) : s \in Domains, t \in Topics}
        \cup {DeadLetterFile}

VARIABLES
    disk,          \* ./message-broker/: file name -> Null or <<document>>
    subscribers,   \* const subscribers: sequence of [subscriber, topics]
    topics,        \* const topics: sequence of [topic, subscribers]
    listeners,     \* emitter: sequence of [topic, subscriber], in order of on()
    nextId,        \* the id the next uuid() call returns
    pub,           \* per event id: the publish call that minted it
    fan,           \* per (event id, subscriber): the fan-out callback of map()
    sub,           \* per (subscriber, topic): the subscribe call
    loops,         \* the executeEventHandler calls of this process, in call order
    restarts,      \* number of process restarts so far
    thrown,        \* history: the errors this process threw to the application
    handlerCalls   \* history: per (subscriber, topic, event id), eventHandler calls

vars ==
    <<disk, subscribers, topics, listeners, nextId, pub, fan, sub, loops,
      restarts, thrown, handlerCalls>>

\* ------------------------------------------------------------ helpers
Range(q) == {q[i] : i \in DOMAIN q}

\* Array.prototype.findIndex, given the results of the test on each element:
\* the first index whose test is true, 0 when there is none (JavaScript's -1).
FindIndex(test) ==
    IF \E i \in DOMAIN test : test[i]
    THEN CHOOSE i \in DOMAIN test : test[i] /\ \A j \in 1..(i - 1) : ~test[j]
    ELSE 0

\* processingEvents.findIndex((v) => v.eventId === eventId)
EventIndex(q, eventId) == FindIndex([k \in DOMAIN q |-> q[k].eventId = eventId])

\* Array.prototype.splice(index, 1): the array without its element at index.
RemoveAt(q, i) == [k \in 1..(Len(q) - 1) |-> IF k < i THEN q[k] ELSE q[k + 1]]

readJSON(f) == disk[f]

IdlePub == [pc |-> "idle", topic |-> "", buf |-> Null]
IdleFan == [pc |-> "none", buf |-> Null]
IdleSub == [pc |-> "none", buf |-> Null]

Init ==
    /\ disk = [f \in FileNames |-> Null]
    /\ subscribers = <<>>
    /\ topics = <<>>
    /\ listeners = <<>>
    /\ nextId = 1
    /\ pub = [e \in EventIds |-> IdlePub]
    /\ fan = [k \in EventIds \X Domains |-> IdleFan]
    /\ sub = [k \in Domains \X Topics |-> IdleSub]
    /\ loops = <<>>
    /\ restarts = 0
    /\ thrown = {}
    /\ handlerCalls = [k \in Domains \X Topics \X EventIds |-> 0]

\* =========================================================== registry
\* subscribers.find((v) => v.subscriber === subscriber)
SubscriberIndex(s) ==
    FindIndex([k \in DOMAIN subscribers |-> subscribers[k].subscriber = s])
\* topics.find((t) => t.topic === topic)
TopicIndex(t) == FindIndex([k \in DOMAIN topics |-> topics[k].topic = t])

\* subscriberInitializer(subscriber), a Domain not yet initialized: the
\* subscriber object is pushed and the subscribe function is returned.
subscriberInitializer(s) ==
    /\ SubscriberIndex(s) = 0
    /\ subscribers' = Append(subscribers, [subscriber |-> s, topics |-> <<>>])
    /\ UNCHANGED <<thrown, disk, topics, listeners, nextId, pub, fan, sub, loops,
                   restarts, handlerCalls>>

\* The tables after subscriberObj.topics.push(topic).
SubscribersAfterSubscribe(s, t) ==
    [subscribers EXCEPT ![SubscriberIndex(s)].topics = Append(@, t)]

\* The tables after the topic object is found or created and the subscriber
\* pushed into it.
TopicsAfterSubscribe(s, t) ==
    IF TopicIndex(t) = 0
    THEN Append(topics, [topic |-> t, subscribers |-> <<s>>])
    ELSE [topics EXCEPT ![TopicIndex(t)].subscribers = Append(@, s)]

\* The function subscriberInitializer returned, called with a topic it has
\* not subscribed yet: both tables are updated, then it awaits
\* readJSON(queue file).
subscribe(s, t) ==
    /\ SubscriberIndex(s) # 0
    /\ ~\E k \in DOMAIN subscribers[SubscriberIndex(s)].topics :
            subscribers[SubscriberIndex(s)].topics[k] = t
    /\ subscribers' = SubscribersAfterSubscribe(s, t)
    /\ topics' = TopicsAfterSubscribe(s, t)
    /\ sub' = [sub EXCEPT ![<<s, t>>] = [pc |-> "readQueue", buf |-> Null]]
    /\ UNCHANGED <<thrown, disk, listeners, nextId, pub, fan, loops, restarts,
                   handlerCalls>>

\* An error thrown to the application: by which function, for which
\* arguments ("" and 0 where the function has none).
Error(in, s, t, e) == [in |-> in, subscriber |-> s, topic |-> t, eventId |-> e]

\* subscriberInitializer(subscriber) for a Domain that subscribers.find
\* finds: it throws `${subscriber} subscriber is being initialized twice.`
subscriberInitializerTwice(s) ==
    /\ SubscriberIndex(s) # 0
    /\ thrown' = thrown \cup {Error("subscriberInitializer", s, "", 0)}
    /\ UNCHANGED <<disk, subscribers, topics, listeners, nextId, pub, fan, sub,
                   loops, restarts, handlerCalls>>

\* A subscribe that pushes the topic before it looks for it.
subscribeTwiceAfterPush(s, t) ==
    /\ SubscriberIndex(s) # 0
    /\ \E k \in DOMAIN subscribers[SubscriberIndex(s)].topics :
            subscribers[SubscriberIndex(s)].topics[k] = t
    /\ subscribers' = SubscribersAfterSubscribe(s, t)
    /\ thrown' = thrown \cup {Error("subscribe", s, t, 0)}
    /\ UNCHANGED <<disk, topics, listeners, nextId, pub, fan, sub, loops,
                   restarts, handlerCalls>>

\* The function subscriberInitializer returned, called with a topic that
\* subscriberObj.topics.find finds: the promise it returns rejects with
\* `${topic} topic is being subscribed twice by the same ...`.
subscribeTwice(s, t) ==
    /\ SubscriberIndex(s) # 0
    /\ \E k \in DOMAIN subscribers[SubscriberIndex(s)].topics :
            subscribers[SubscriberIndex(s)].topics[k] = t
    /\ thrown' = thrown \cup {Error("subscribe", s, t, 0)}
    /\ UNCHANGED <<disk, subscribers, topics, listeners, nextId, pub, fan, sub,
                   loops, restarts, handlerCalls>>

\* ===================================================== delivery engine
\* tryProcessing(..., isRetry) up to its suspension: with isRetry the 5000 ms
\* timer is armed and incrementTries starts when it fires, without it
\* incrementTries starts at once.
tryProcessing(l, isRetry) ==
    [l EXCEPT !.isRetry = isRetry,
              !.pc = IF isRetry THEN "delay" ELSE "incRead",
              !.buf = Null]

\* One turn of while (!acked && triesCount < 5): triesCount++ and
\* tryProcessing(..., triesCount !== tries), or the end of the loop.
WhileLoop(l) ==
    IF ~l.acked /\ l.triesCount < MaxRetries
    THEN tryProcessing([l EXCEPT !.triesCount = @ + 1], l.triesCount + 1 # l.tries)
    ELSE [l EXCEPT !.pc = "done", !.buf = Null]

\* executeEventHandler(eventHandler, subscriber, topic, content, tries,
\* parentId) up to its first suspension: acked = false, triesCount = tries,
\* then the while loop.  via, calls and resolved are history: who made the
\* call, how often this call invoked the handler, and whether the handler
\* ever resolved in it.
executeEventHandler(s, t, content, tries, parentId, via) ==
    WhileLoop([subscriber |-> s, topic |-> t, content |-> content,
               parentId |-> parentId, tries |-> tries, triesCount |-> tries,
               isRetry |-> FALSE, acked |-> FALSE, pc |-> "new", buf |-> Null,
               via |-> via, calls |-> 0, resolved |-> FALSE])

\* A catch that takes the rejected attempt for an acknowledged one.
AttemptFailedAsAcked(l) == [l EXCEPT !.acked = TRUE, !.pc = "done", !.buf = Null]

\* tryProcessing rejected: .catch swallows the error and the while loop
\* takes its next turn.
AttemptFailed(l) == WhileLoop(l)

\* Promise.all of the backlog of subscribe(s, t) has resolved when the calls
\* are ls: every executeEventHandler call of the backlog has ended.
BacklogEnded(ls, s, t) ==
    \A i \in DOMAIN ls :
        (ls[i].subscriber = s /\ ls[i].topic = t /\ ls[i].via = "backlog")
            => ls[i].pc = "done"

\* The subscribe calls (of sb) whose await Promise.all resolves with ls.
BacklogResolved(ls, sb) ==
    {k \in DOMAIN sb : sb[k].pc = "backlog" /\ BacklogEnded(ls, k[1], k[2])}

\* What follows await Promise.all in subscribe: emitter.on registers the
\* listener and subscribe returns.  Promise continuations run before the
\* next I/O or timer callback, so this is part of the step that ends the
\* last call of the backlog (or that dispatches a backlog with nothing to
\* attempt); ls and sb are the calls and subscriptions that step leaves.
SubscribeListen(ls, sb) ==
    LET resolved == BacklogResolved(ls, sb)
    IN /\ sub' = [k \in DOMAIN sb |->
                    IF k \in resolved THEN [sb[k] EXCEPT !.pc = "listening"]
                    ELSE sb[k]]
       /\ listeners' =
            IF resolved = {} THEN listeners
            ELSE LET k == CHOOSE k \in resolved : TRUE
                 IN Append(listeners, [topic |-> k[2], subscriber |-> k[1]])

\* The document of an incrementTries that forgets the tries++.
WithTriesAsRead(d, eventId) == d

\* The document incrementTries writes: tries++ on the entry find() returns.
WithTriesIncremented(d, eventId) ==
    LET i == EventIndex(d.processingEvents, eventId)
    IN [d EXCEPT !.processingEvents[i].tries = @ + 1]

\* The document eventAcknowledged writes: splice the entry found, push it to
\* processedEvents with its tries, filter processingEvents by the id.
WithAcknowledged(d, parentId) ==
    LET index == EventIndex(d.processingEvents, parentId)
        processedEvent == d.processingEvents[index]
        spliced == RemoveAt(d.processingEvents, index)
    IN [d EXCEPT
          !.processedEvents =
              Append(@, [eventId |-> parentId, tries |-> processedEvent.tries]),
          !.processingEvents =
              SelectSeq(spliced, LAMBDA v : v.eventId # parentId)]

\* The timer of tryProcessing fires and the readJSON of incrementTries
\* completes.  A missing file throws, and so does find() returning
\* undefined (TypeError on undefined.tries): the attempt fails without the
\* handler being called.  Otherwise writeJSON is awaited.
IncrementTriesRead(i) ==
    LET l == loops[i]
        d == readJSON(QueueFile(l.subscriber, l.topic))
    IN /\ i \in DOMAIN loops
       /\ l.pc \in {"delay", "incRead"}
       /\ loops' =
            [loops EXCEPT ![i] =
               IF d = Null
                  \/ EventIndex(d[1].processingEvents, l.parentId) = 0
               THEN AttemptFailed(l)
               ELSE [l EXCEPT !.pc = "incWrite",
                              !.buf = <<WithTriesIncremented(d[1], l.parentId)>>]]
       /\ SubscribeListen(loops', sub)
       /\ UNCHANGED <<thrown, disk, subscribers, topics, nextId, pub, fan,
                      restarts, handlerCalls>>

\* The writeJSON of incrementTries completes and eventHandler is called.
IncrementTriesWrite(i) ==
    LET l == loops[i]
    IN /\ i \in DOMAIN loops
       /\ l.pc = "incWrite"
       /\ disk' = [disk EXCEPT ![QueueFile(l.subscriber, l.topic)] = l.buf]
       /\ loops' = [loops EXCEPT ![i] =
                      [l EXCEPT !.pc = "handler", !.buf = Null, !.calls = @ + 1]]
       /\ handlerCalls' =
            [handlerCalls EXCEPT ![<<l.subscriber, l.topic, l.parentId>>] = @ + 1]
       /\ UNCHANGED <<thrown, subscribers, topics, listeners, nextId, pub, fan, sub,
                      restarts>>

\* eventHandler rejects.
HandlerRejects(i) ==
    LET l == loops[i]
    IN /\ i \in DOMAIN loops
       /\ l.pc = "handler"
       /\ loops' = [loops EXCEPT ![i] = AttemptFailed(l)]
       /\ SubscribeListen(loops', sub)
       /\ UNCHANGED <<thrown, disk, subscribers, topics, nextId, pub, fan,
                      restarts, handlerCalls>>

\* eventHandler resolves and the readJSON of eventAcknowledged completes.  A
\* missing file or a missing entry throws and the attempt fails.  Otherwise
\* writeJSON is started and NOT awaited: eventAcknowledged returns,
\* tryProcessing resolves, acked = true and the loop ends while the write is
\* still pending.
eventAcknowledged(i) ==
    LET l == loops[i]
        d == readJSON(QueueFile(l.subscriber, l.topic))
        found == d # Null
                 /\ EventIndex(d[1].processingEvents, l.parentId) # 0
    IN /\ i \in DOMAIN loops
       /\ l.pc = "handler"
       /\ loops' =
            [loops EXCEPT ![i] =
               IF found
               THEN [WhileLoop([l EXCEPT !.acked = TRUE, !.resolved = TRUE])
                       EXCEPT !.buf = <<WithAcknowledged(d[1], l.parentId)>>]
               ELSE [AttemptFailed(l) EXCEPT !.resolved = TRUE]]
       /\ SubscribeListen(loops', sub)
       /\ UNCHANGED <<thrown, disk, subscribers, topics, nextId, pub, fan,
                      restarts, handlerCalls>>

\* The writeJSON that eventAcknowledged left pending completes.
AcknowledgeWrite(i) ==
    LET l == loops[i]
    IN /\ i \in DOMAIN loops
       /\ l.pc = "done"
       /\ l.buf # Null
       /\ disk' = [disk EXCEPT ![QueueFile(l.subscriber, l.topic)] = l.buf]
       /\ loops' = [loops EXCEPT ![i] = [l EXCEPT !.buf = Null]]
       /\ UNCHANGED <<thrown, subscribers, topics, listeners, nextId, pub, fan, sub,
                      restarts, handlerCalls>>

\* ================================================ subscriber initialization
\* The executeEventHandler calls of Promise.all(processingEvents.map(...)).
Backlog(s, t, d) ==
    [k \in DOMAIN d.processingEvents |->
        executeEventHandler(s, t, d.processingEvents[k].content,
                            d.processingEvents[k].tries,
                            d.processingEvents[k].eventId, "backlog")]

\* The queue document a first subscription writes from the event log read.
BackfilledQueue(s, t, topicLogs) ==
    [subscriber |-> s, topic |-> t,
     processedEvents |-> <<>>,
     processingEvents |->
        IF topicLogs # Null
        THEN [k \in DOMAIN topicLogs[1].events |->
                 [eventId |-> topicLogs[1].events[k].eventId,
                  content |-> topicLogs[1].events[k].content,
                  tries |-> 0]]
        ELSE <<>>]

\* readJSON(queue file) of subscribe completes.  With a document, the backlog
\* is dispatched from it; without, readJSON(events file) is awaited.
SubscribeReadQueue(s, t) ==
    LET domainTopicQueue == readJSON(QueueFile(s, t))
    IN /\ sub[<<s, t>>].pc = "readQueue"
       /\ IF domainTopicQueue # Null
          THEN /\ loops' = loops \o Backlog(s, t, domainTopicQueue[1])
               /\ SubscribeListen(loops', [sub EXCEPT ![<<s, t>>].pc = "backlog"])
          ELSE /\ loops' = loops
               /\ sub' = [sub EXCEPT ![<<s, t>>].pc = "readLog"]
               /\ listeners' = listeners
       /\ UNCHANGED <<thrown, disk, subscribers, topics, nextId, pub, fan,
                      restarts, handlerCalls>>

\* readJSON(events file) of subscribe completes: writeJSON(queue file) of the
\* backfilled document is awaited.
SubscribeReadLog(s, t) ==
    /\ sub[<<s, t>>].pc = "readLog"
    /\ sub' = [sub EXCEPT ![<<s, t>>] =
                 [pc |-> "writeQueue",
                  buf |-> <<BackfilledQueue(s, t, readJSON(EventsFile(t)))>>]]
    /\ UNCHANGED <<thrown, disk, subscribers, topics, listeners, nextId, pub, fan,
                   loops, restarts, handlerCalls>>

\* writeJSON(queue file) of subscribe completes and resolves the document
\* written: the backlog is dispatched from it.
SubscribeWriteQueue(s, t) ==
    /\ sub[<<s, t>>].pc = "writeQueue"
    /\ disk' = [disk EXCEPT ![QueueFile(s, t)] = sub[<<s, t>>].buf]
    /\ loops' = loops \o Backlog(s, t, sub[<<s, t>>].buf[1])
    /\ SubscribeListen(loops',
                       [sub EXCEPT ![<<s, t>>] = [pc |-> "backlog", buf |-> Null]])
    /\ UNCHANGED <<thrown, subscribers, topics, nextId, pub, fan, restarts,
                   handlerCalls>>

\* ==================================================== publish coordinator
\* The document persistEvent writes: the log read (or an empty one) with the
\* new event pushed.
WithEventPushed(eventLogs, t, parentId, eventId, content) ==
    LET log == IF eventLogs = Null THEN [topic |-> t, events |-> <<>>]
               ELSE eventLogs[1]
    IN [log EXCEPT !.events =
          Append(@, [parentId |-> parentId, eventId |-> eventId, content |-> content])]

\* publish(parentId, topic, content) is called; persistEvent mints the id and
\* its readJSON(events file) completes; writeJSON of the log is awaited.
publish(e, t) ==
    /\ e = nextId
    /\ pub[e].pc = "idle"
    /\ nextId' = nextId + 1
    /\ pub' = [pub EXCEPT ![e] =
                 [pc |-> "writeLog", topic |-> t,
                  buf |-> <<WithEventPushed(readJSON(EventsFile(t)), t,
                                            PublishParentId(e), e, PublishContent(e))>>]]
    /\ UNCHANGED <<thrown, disk, subscribers, topics, listeners, fan, sub, loops,
                   restarts, handlerCalls>>

\* The subscribers persistEventsInSubscriberQueues maps over: those of the
\* topic object, none when topics.find returns undefined.
FanoutTargets(t) ==
    IF TopicIndex(t) = 0 THEN {} ELSE Range(topics[TopicIndex(t)].subscribers)

\* emitter.emit(`domain-event-${topic}`, content, eventId): every listener of
\* the topic calls executeEventHandler(..., 0, eventId), in order of on().
Emit(t, content, eventId) ==
    LET called == SelectSeq(listeners, LAMBDA v : v.topic = t)
    IN [k \in DOMAIN called |->
          executeEventHandler(called[k].subscriber, t, content, 0, eventId, "listener")]

\* writeJSON of persistEvent completes.  persistEventsInSubscriberQueues
\* starts one async callback per subscriber of the topic, each suspended at
\* its readJSON, and returns without awaiting them; emitter.emit runs the
\* listeners; publish returns.
persistEvent(e) ==
    LET t == pub[e].topic
    IN /\ pub[e].pc = "writeLog"
       /\ disk' = [disk EXCEPT ![EventsFile(t)] = pub[e].buf]
       /\ fan' = [k \in EventIds \X Domains |->
                    IF k[1] = e /\ k[2] \in FanoutTargets(t)
                    THEN [pc |-> "read", buf |-> Null]
                    ELSE fan[k]]
       /\ loops' = loops \o Emit(t, PublishContent(e), e)
       /\ pub' = [pub EXCEPT ![e] = [pc |-> "done", topic |-> t, buf |-> Null]]
       /\ UNCHANGED <<thrown, subscribers, topics, listeners, nextId, sub, restarts,
                      handlerCalls>>

\* publish(parentId, topic, content) whose readJSON(events file) rejects (an
\* error other than ENOENT): the id is minted, the catch of persistEvent
\* rejects, await persistEvent throws and publish rejects.
persistEventReadFails(e, t) ==
    /\ e = nextId
    /\ pub[e].pc = "idle"
    /\ nextId' = nextId + 1
    /\ pub' = [pub EXCEPT ![e] = [pc |-> "failed", topic |-> t, buf |-> Null]]
    /\ thrown' = thrown \cup {Error("publish", "", t, e)}
    /\ UNCHANGED <<disk, subscribers, topics, listeners, fan, sub, loops,
                   restarts, handlerCalls>>

\* A persistEvent that resolves although its write failed.
persistEventWriteFailsSilently(e) ==
    LET t == pub[e].topic
    IN /\ pub[e].pc = "writeLog"
       /\ loops' = loops \o Emit(t, PublishContent(e), e)
       /\ pub' = [pub EXCEPT ![e] = [pc |-> "failed", topic |-> t, buf |-> Null]]
       /\ thrown' = thrown \cup {Error("publish", "", t, e)}
       /\ UNCHANGED <<disk, subscribers, topics, listeners, nextId, fan, sub,
                      restarts, handlerCalls>>

\* writeJSON(events file) of persistEvent rejects (the file stays as it
\* was): the catch of persistEvent rejects, await persistEvent throws and
\* publish rejects before persistEventsInSubscriberQueues and emitter.emit.
persistEventWriteFails(e) ==
    /\ pub[e].pc = "writeLog"
    /\ pub' = [pub EXCEPT ![e] = [pc |-> "failed", topic |-> pub[e].topic, buf |-> Null]]
    /\ thrown' = thrown \cup {Error("publish", "", pub[e].topic, e)}
    /\ UNCHANGED <<disk, subscribers, topics, listeners, nextId, fan, sub,
                   loops, restarts, handlerCalls>>

\* The document a fan-out callback writes: the new entry pushed.
WithEventEnqueued(logs, eventId, content) ==
    [logs EXCEPT !.processingEvents =
        Append(@, [eventId |-> eventId, content |-> content, tries |-> 0])]

\* readJSON(queue file) of a fan-out callback completes: without a document
\* the callback returns, with one writeJSON is awaited.
persistEventsInSubscriberQueuesRead(e, s) ==
    LET logs == readJSON(QueueFile(s, pub[e].topic))
    IN /\ fan[<<e, s>>].pc = "read"
       /\ fan' = [fan EXCEPT ![<<e, s>>] =
                    IF logs = Null THEN [pc |-> "done", buf |-> Null]
                    ELSE [pc |-> "write",
                          buf |-> <<WithEventEnqueued(logs[1], e, PublishContent(e))>>]]
       /\ UNCHANGED <<thrown, disk, subscribers, topics, listeners, nextId, pub, sub,
                      loops, restarts, handlerCalls>>

\* writeJSON(queue file) of a fan-out callback completes.
persistEventsInSubscriberQueuesWrite(e, s) ==
    /\ fan[<<e, s>>].pc = "write"
    /\ disk' = [disk EXCEPT ![QueueFile(s, pub[e].topic)] = fan[<<e, s>>].buf]
    /\ fan' = [fan EXCEPT ![<<e, s>>] = [pc |-> "done", buf |-> Null]]
    /\ UNCHANGED <<thrown, subscribers, topics, listeners, nextId, pub, sub, loops,
                   restarts, handlerCalls>>

\* ================================================================ restart
\* The process ends and is started again: the module-level tables, the
\* emitter and every pending operation are gone, the files stay.
Restart ==
    /\ restarts < MaxRestarts
    /\ restarts' = restarts + 1
    /\ subscribers' = <<>>
    /\ topics' = <<>>
    /\ listeners' = <<>>
    /\ pub' = [e \in EventIds |-> IdlePub]
    /\ fan' = [k \in EventIds \X Domains |-> IdleFan]
    /\ sub' = [k \in Domains \X Topics |-> IdleSub]
    /\ loops' = <<>>
    /\ thrown' = {}
    /\ UNCHANGED <<disk, nextId, handlerCalls>>

\* ========================================================== specification
NoSubscribeInProgress == \A k \in DOMAIN sub : sub[k].pc \in {"none", "listening"}
NoPublishInProgress ==
    /\ \A e \in EventIds : pub[e].pc \in {"idle", "done", "failed"}
    /\ \A k \in DOMAIN fan : fan[k].pc \in {"none", "done"}

\* What the application does: it initializes the Domains of D, subscribes
\* them, and calls publish at most P times.
Register(D) == \E s \in D : subscriberInitializer(s)
CallSubscribe(D) == \E s \in D, t \in Topics : subscribe(s, t)
CallPublish(P) == \E e \in 1..P, t \in Topics : publish(e, t)

\* The application makes a call only while no call of the other kind is in
\* progress.
SubscribeAlone(D) == NoPublishInProgress /\ CallSubscribe(D)
PublishAlone(P) == NoSubscribeInProgress /\ CallPublish(P)

\* What the event loop does: a pending read, write, timer or handler call
\* completes.
SubscribeSteps ==
    \E s \in Domains, t \in Topics :
        \/ SubscribeReadQueue(s, t)
        \/ SubscribeReadLog(s, t)
        \/ SubscribeWriteQueue(s, t)
PublishSteps ==
    \/ \E e \in EventIds : persistEvent(e)
    \/ \E e \in EventIds, s \in Domains :
          \/ persistEventsInSubscriberQueuesRead(e, s)
          \/ persistEventsInSubscriberQueuesWrite(e, s)
Deliver ==
    \E i \in LoopIds :
        \/ IncrementTriesRead(i)
        \/ IncrementTriesWrite(i)
        \/ HandlerRejects(i)
        \/ eventAcknowledged(i)
        \/ AcknowledgeWrite(i)

\* No fan-out callback on the queue file of a loop is pending.
FanoutSettled(i) ==
    \A e \in EventIds : fan[<<e, loops[i].subscriber>>].pc \notin {"read", "write"}

\* Deliver on a file system that is fast against the timer: the 5000 ms
\* timer of an attempt fires only when the fan-out callbacks on the queue
\* file have completed.
IncrementTriesReadTimely(i) == i \in DOMAIN loops /\ FanoutSettled(i) /\ IncrementTriesRead(i)
DeliverTimely ==
    \E i \in LoopIds :
        \/ IncrementTriesReadTimely(i)
        \/ IncrementTriesWrite(i)
        \/ HandlerRejects(i)
        \/ eventAcknowledged(i)
        \/ AcknowledgeWrite(i)

\* One subscriber, one publish call, calls and completions in any order, and
\* a restart at any moment.
Solo == {"PAYMENT"}
Next ==
    \/ Register(Solo)
    \/ CallSubscribe(Solo)
    \/ CallPublish(PublishOnce)
    \/ SubscribeSteps
    \/ PublishSteps
    \/ Deliver
    \/ Restart
Spec == Init /\ [][Next]_vars

\* One subscriber and MaxPublish publish calls that may overlap each other
\* but not a subscribe call: subscribe is called while no publish is in
\* progress, and publish while no subscribe call is in progress.
NextOverlap ==
    \/ Register(Solo)
    \/ SubscribeAlone(Solo)
    \/ PublishAlone(MaxPublish)
    \/ SubscribeSteps
    \/ PublishSteps
    \/ DeliverTimely
SpecOverlap == Init /\ [][NextOverlap]_vars

\* Two subscribers of the topic and one publish call, with the same
\* discipline of calls.
NextFanout ==
    \/ Register(Domains)
    \/ SubscribeAlone(Domains)
    \/ PublishAlone(PublishOnce)
    \/ SubscribeSteps
    \/ PublishSteps
    \/ Deliver
SpecFanout == Init /\ [][NextFanout]_vars

\* One subscriber and one publish call in any order, with the calls the
\* broker rejects (a Domain initialized twice, a topic subscribed twice) and
\* with event log reads and writes that fail, on a file system that is fast
\* against the timer.
RegisterTwice(D) == \E s \in D : subscriberInitializerTwice(s)
CallSubscribeTwice(D) == \E s \in D, t \in Topics : subscribeTwice(s, t)
CallPublishReadFails(P) == \E e \in 1..P, t \in Topics : persistEventReadFails(e, t)
PublishWriteFails == \E e \in EventIds : persistEventWriteFails(e)
NextErrors ==
    \/ Register(Solo)
    \/ RegisterTwice(Solo)
    \/ CallSubscribe(Solo)
    \/ CallSubscribeTwice(Solo)
    \/ CallPublish(PublishOnce)
    \/ CallPublishReadFails(PublishOnce)
    \/ PublishWriteFails
    \/ SubscribeSteps
    \/ PublishSteps
    \/ DeliverTimely
SpecErrors == Init /\ [][NextErrors]_vars

\* Two subscribers and one publish call, no subscribe call in progress
\* while a publish is and the reverse, on a file system that is fast against
\* the timer: the delivery of the event to a subscriber is the only
\* operation on its queue document while it runs.
NextSingle ==
    \/ Register(Domains)
    \/ SubscribeAlone(Domains)
    \/ PublishAlone(PublishOnce)
    \/ SubscribeSteps
    \/ PublishSteps
    \/ DeliverTimely
SpecSingle == Init /\ [][NextSingle]_vars

\* The queue file of (s, t) is removed from ./message-broker/ by something
\* other than the broker: readJSON resolves null for it from now on.
QueueFileRemoved(s, t) ==
    /\ disk[QueueFile(s, t)] # Null
    /\ disk' = [disk EXCEPT ![QueueFile(s, t)] = Null]
    /\ UNCHANGED <<subscribers, topics, listeners, nextId, pub, fan, sub, loops,
                   restarts, thrown, handlerCalls>>

\* One subscriber, one publish call and a restart, in any order, with queue
\* files that may disappear: deliveries meet missing documents and missing
\* entries.
FilesRemoved == \E s \in Solo, t \in Topics : QueueFileRemoved(s, t)
NextBroken ==
    \/ Register(Solo)
    \/ CallSubscribe(Solo)
    \/ CallPublish(PublishOnce)
    \/ SubscribeSteps
    \/ PublishSteps
    \/ Deliver
    \/ Restart
    \/ FilesRemoved
SpecBroken == Init /\ [][NextBroken]_vars

\* ================================================================= claims
\* The event ids of a sequence of queue entries.
Ids(q) == {q[k].eventId : k \in DOMAIN q}
QueueDocs == {k \in Domains \X Topics : disk[QueueFile(k[1], k[2])] # Null}
Queue(k) == disk[QueueFile(k[1], k[2])][1]

\* C1 (exclusivity): in every persisted state of every queue document no
\* event id is in processingEvents and in processedEvents at once.
C1_Exclusive ==
    \A k \in QueueDocs :
        Ids(Queue(k).processingEvents) \cap Ids(Queue(k).processedEvents) = {}

\* An executeEventHandler call has ended: its while loop is over.
Ended(l) == l.pc = "done"
Triple(l) == <<l.subscriber, l.topic, l.parentId>>

\* C2 (at-least-once delivery): an event published after subscribe returned
\* reaches the listener, and when its delivery has ended the handler has
\* been invoked with it at least once.
C2_DeliveredAtLeastOnce ==
    \A i \in DOMAIN loops :
        (loops[i].via = "listener" /\ Ended(loops[i])) => loops[i].calls >= 1

\* C3 (retry bound): a delivery that entered with tries = 0, whose handler
\* never resolved, has invoked the handler exactly 5 times when it has ended.
C3_ExactlyFiveAttempts ==
    \A i \in DOMAIN loops :
        (loops[i].tries = 0 /\ Ended(loops[i]) /\ ~loops[i].resolved)
            => loops[i].calls = MaxRetries

\* The dead-letter record {eventId, topic, subscriber} is in the dead-letter
\* file.
DeadLettered(s, t, e) ==
    /\ disk[DeadLetterFile] # Null
    /\ \E k \in DOMAIN disk[DeadLetterFile][1] :
          disk[DeadLetterFile][1][k] = [eventId |-> e, topic |-> t, subscriber |-> s]

\* C4 (dead-letter escalation): once the handler has failed on its 5th
\* attempt the event is absent from processingEvents and its dead-letter
\* record is on disk.
C4_DeadLetterWritten ==
    \A i \in DOMAIN loops :
        (Ended(loops[i]) /\ ~loops[i].acked /\ loops[i].tries = 0
           /\ loops[i].calls = MaxRetries)
            => /\ disk[QueueFile(loops[i].subscriber, loops[i].topic)] # Null
               /\ loops[i].parentId \notin
                     Ids(Queue(<<loops[i].subscriber, loops[i].topic>>).processingEvents)
               /\ DeadLettered(loops[i].subscriber, loops[i].topic, loops[i].parentId)

\* C5 (success idempotence): once a delivery of (S, T, e) has been
\* acknowledged, no step invokes the handler of S for (S, T, e) again.
C5_NoInvocationAfterAck ==
    [][\A i \in DOMAIN loops :
          loops[i].acked => handlerCalls'[Triple(loops[i])] = handlerCalls[Triple(loops[i])]]_vars

\* The events whose publish call has returned.
Published == {e \in EventIds : pub[e].pc = "done"}

\* C6 (backfill on first subscription): the document a first subscription
\* is about to write, when every publish call made so far had returned
\* before subscribe was called, has no processed event and holds exactly the
\* published events, once each, with their content and tries = 0, in the
\* order of the event log.
C6_BackfillExact ==
    \A k \in DOMAIN sub :
        sub[k].pc = "writeQueue" =>
            LET d == sub[k].buf[1]
                q == d.processingEvents
                log == disk[EventsFile(k[2])]
            IN /\ d.processedEvents = <<>>
               /\ Ids(q) = Published
               /\ Len(q) = Cardinality(Published)
               /\ \A j \in DOMAIN q :
                     q[j].tries = 0 /\ q[j].content = PublishContent(q[j].eventId)
               /\ Published # {} =>
                     /\ log # Null
                     /\ Len(log[1].events) = Len(q)
                     /\ \A j \in DOMAIN q : log[1].events[j].eventId = q[j].eventId

\* The steps of the delivery of one executeEventHandler call.
DeliverStep(i) ==
    \/ IncrementTriesRead(i)
    \/ IncrementTriesWrite(i)
    \/ HandlerRejects(i)
    \/ eventAcknowledged(i)
    \/ AcknowledgeWrite(i)

\* C8 (fan-out completeness): when publish has returned (and the bus has
\* emitted), no fan-out write of the event is still outstanding.
C8_FanoutBeforeReturn ==
    \A e \in EventIds :
        pub[e].pc = "done" =>
            \A s \in Domains : fan[<<e, s>>].pc \notin {"read", "write"}

\* C9 (fan-out independence): a delivery step of one subscriber leaves the
\* queue documents of every other subscriber and the event logs unchanged.
C9_DeliveryFrame ==
    [][\A i \in DOMAIN loops :
          DeliverStep(i) =>
              /\ \A s \in Domains \ {loops[i].subscriber}, t \in Topics :
                    disk'[QueueFile(s, t)] = disk[QueueFile(s, t)]
              /\ \A t \in Topics : disk'[EventsFile(t)] = disk[EventsFile(t)]]_vars

\* C10 (publish without subscribers): the step that completes a publish to a
\* topic without subscribers appends exactly the new event to the event log
\* as it is on disk, touches no queue document and starts no delivery.
C10_PublishWithoutSubscribers ==
    [][\A e \in EventIds :
          (persistEvent(e) /\ FanoutTargets(pub[e].topic) = {}) =>
              /\ disk'[EventsFile(pub[e].topic)] =
                    <<WithEventPushed(disk[EventsFile(pub[e].topic)], pub[e].topic,
                                      PublishParentId(e), e, PublishContent(e))>>
              /\ \A s \in Domains, t \in Topics :
                    disk'[QueueFile(s, t)] = disk[QueueFile(s, t)]
              /\ loops' = loops
              /\ handlerCalls' = handlerCalls]_vars

\* The queue entries a subscription that found a document resumes: the
\* executeEventHandler calls it adds, as (eventId, content, tries).
Dispatched(before, after) ==
    [j \in 1..(Len(after) - Len(before)) |->
        [eventId |-> after[Len(before) + j].parentId,
         content |-> after[Len(before) + j].content,
         tries |-> after[Len(before) + j].tries]]

\* A subscription resumes from an existing queue document: it neither reads
\* the event log nor writes the document, and calls executeEventHandler for
\* exactly the entries of processingEvents with their recorded tries.
ResumesAsRecorded ==
    \A s \in Domains, t \in Topics :
        (SubscribeReadQueue(s, t) /\ disk[QueueFile(s, t)] # Null) =>
            /\ disk' = disk
            /\ sub'[<<s, t>>].pc \in {"backlog", "listening"}
            /\ Dispatched(loops, loops') = Queue(<<s, t>>).processingEvents
            /\ \A i \in DOMAIN loops : loops'[i] = loops[i]

\* A resumed subscription calls executeEventHandler for no event id that
\* the processedEvents of the document it found holds.
ResumeSkipsProcessed ==
    \A s \in Domains, t \in Topics :
        (SubscribeReadQueue(s, t) /\ disk[QueueFile(s, t)] # Null) =>
            \A j \in DOMAIN Dispatched(loops, loops') :
                Dispatched(loops, loops')[j].eventId
                    \notin Ids(Queue(<<s, t>>).processedEvents)

\* An entry dispatched at tries k gets at most 5 - k attempts.
ResumedAttemptsBounded ==
    \A i \in DOMAIN loops :
        loops[i].calls <=
            IF loops[i].tries < MaxRetries THEN MaxRetries - loops[i].tries ELSE 0

\* C7 (resume after restart): a subscription that finds its queue document
\* reads no event log and writes nothing, dispatches exactly the entries of
\* processingEvents, each with at most 5 - tries attempts left, and none of
\* them for an event id in processedEvents.
C7_ResumeAfterRestart ==
    [][ResumesAsRecorded /\ ResumeSkipsProcessed /\ ResumedAttemptsBounded']_vars

\* C9, witness: after one publish to two subscribers, INVENTORY has used up
\* its 5 attempts on the event while PAYMENT has acknowledged it on disk.
C9_OneFailsOneAcknowledges ==
    \E i, j \in DOMAIN loops :
        /\ loops[i].subscriber = "INVENTORY" /\ loops[j].subscriber = "PAYMENT"
        /\ loops[i].parentId = loops[j].parentId
        /\ Ended(loops[i]) /\ ~loops[i].acked /\ loops[i].calls = MaxRetries
        /\ Ended(loops[j]) /\ loops[j].acked /\ loops[j].buf = Null
        /\ disk[QueueFile("PAYMENT", loops[j].topic)] # Null
        /\ loops[j].parentId
              \in Ids(Queue(<<"PAYMENT", loops[j].topic>>).processedEvents)
        /\ disk[QueueFile("INVENTORY", loops[i].topic)] # Null
        /\ loops[i].parentId
              \in Ids(Queue(<<"INVENTORY", loops[i].topic>>).processingEvents)

\* The errors of a rejected binding.
BindingErrors == {x \in thrown : x.in \in {"subscriberInitializer", "subscribe"}}

\* No Domain is twice in subscribers, no topic twice in the topics of a
\* subscriber, no subscriber twice in the subscribers of a topic.
NoDuplicateBindings ==
    /\ \A i, j \in DOMAIN subscribers :
          subscribers[i].subscriber = subscribers[j].subscriber => i = j
    /\ \A i \in DOMAIN subscribers : \A a, b \in DOMAIN subscribers[i].topics :
          subscribers[i].topics[a] = subscribers[i].topics[b] => a = b
    /\ \A i, j \in DOMAIN topics : topics[i].topic = topics[j].topic => i = j
    /\ \A i \in DOMAIN topics : \A a, b \in DOMAIN topics[i].subscribers :
          topics[i].subscribers[a] = topics[i].subscribers[b] => a = b

\* C11 (duplicate bindings are rejected): the tables never hold a binding
\* twice, and a step that throws for a Domain initialized twice or a topic
\* subscribed twice leaves the two tables, the queue documents and the
\* listeners as they were, and starts or invokes no handler.
C11_DuplicateBindingsRejected ==
    [][/\ NoDuplicateBindings'
       /\ BindingErrors' # BindingErrors =>
             /\ subscribers' = subscribers
             /\ topics' = topics
             /\ listeners' = listeners
             /\ \A s \in Domains, t \in Topics :
                   disk'[QueueFile(s, t)] = disk[QueueFile(s, t)]
             /\ loops' = loops
             /\ handlerCalls' = handlerCalls]_vars

\* C11, witness: both rejections have happened to a subscriber that has a
\* queue document and a listener.
C11_BothRejected ==
    /\ Error("subscriberInitializer", "PAYMENT", "", 0) \in thrown
    /\ Error("subscribe", "PAYMENT", "ORDER_CREATED", 0) \in thrown
    /\ disk[QueueFile("PAYMENT", "ORDER_CREATED")] # Null
    /\ listeners # <<>>

\* C12 (publish-time error propagation): a step in which the event log read
\* or write of a publish fails throws to the caller of publish, changes no
\* queue document and starts no delivery; and the event of a failed publish
\* is in no queue document, has no fan-out callback and was handed to no
\* listener.
C12_PublishErrorPropagates ==
    [][\A e \in EventIds :
          /\ (pub[e].pc # "failed" /\ pub'[e].pc = "failed") =>
                /\ Error("publish", "", pub'[e].topic, e) \in thrown'
                /\ \A s \in Domains, t \in Topics :
                      disk'[QueueFile(s, t)] = disk[QueueFile(s, t)]
                /\ loops' = loops
                /\ handlerCalls' = handlerCalls
          /\ pub'[e].pc = "failed" =>
                /\ \A s \in Domains : fan'[<<e, s>>].pc = "none"
                /\ \A i \in DOMAIN loops' : loops'[i].parentId # e
                /\ \A s \in Domains, t \in Topics :
                      disk'[QueueFile(s, t)] # Null =>
                          e \notin Ids(disk'[QueueFile(s, t)][1].processingEvents)
                                     \cup Ids(disk'[QueueFile(s, t)][1].processedEvents)]_vars

\* C12, witness: a publish has failed while PAYMENT was subscribed to its
\* topic, with its queue document on disk and its listener registered.
C12_PublishFailedWhileSubscribed ==
    \E e \in EventIds :
        /\ pub[e].pc = "failed"
        /\ Error("publish", "", "ORDER_CREATED", e) \in thrown
        /\ disk[QueueFile("PAYMENT", "ORDER_CREATED")] # Null
        /\ \E k \in DOMAIN listeners : listeners[k].topic = "ORDER_CREATED"

\* The entries of a sequence of queue entries that have the event id.
EntriesOf(q, eventId) == {k \in DOMAIN q : q[k].eventId = eventId}

\* The delivery of call i is the only operation there was on its queue
\* document: no other executeEventHandler call of the subscriber for the
\* topic, and no fan-out callback of another event to the subscriber.
OnlyDelivery(i) ==
    /\ \A j \in DOMAIN loops \ {i} :
          loops[j].subscriber # loops[i].subscriber \/ loops[j].topic # loops[i].topic
    /\ \A e \in EventIds \ {loops[i].parentId} :
          fan[<<e, loops[i].subscriber>>].pc = "none"

\* C13 (final tries on success): when the only delivery on a queue, of an
\* event that entered with tries = 0, has been acknowledged on its k-th attempt and the
\* acknowledgement is written, the queue document has the event no more in
\* processingEvents and once in processedEvents, with tries = k, 1 <= k <= 5.
C13_FinalTriesOnSuccess ==
    \A i \in DOMAIN loops :
        (Ended(loops[i]) /\ loops[i].acked /\ loops[i].buf = Null
           /\ loops[i].tries = 0 /\ OnlyDelivery(i)) =>
            LET k == loops[i].calls
                d == disk[QueueFile(loops[i].subscriber, loops[i].topic)]
            IN /\ k \in 1..MaxRetries
               /\ d # Null
               /\ EntriesOf(d[1].processingEvents, loops[i].parentId) = {}
               /\ Cardinality(EntriesOf(d[1].processedEvents, loops[i].parentId)) = 1
               /\ \A j \in EntriesOf(d[1].processedEvents, loops[i].parentId) :
                     d[1].processedEvents[j].tries = k

\* C13, witness: the handler rejected four times and resolved on the fifth
\* attempt, and the acknowledgement is on disk.
C13_ResolvedOnFifthAttempt ==
    \E i \in DOMAIN loops :
        /\ Ended(loops[i]) /\ loops[i].acked /\ loops[i].buf = Null
        /\ loops[i].tries = 0 /\ loops[i].calls = MaxRetries
        /\ OnlyDelivery(i)
        /\ handlerCalls[Triple(loops[i])] = MaxRetries

\* C14 (delay policy): the first attempt of a delivery that entered with
\* tries = 0 does not wait for the 5000 ms timer, and every attempt after a
\* failed one does.
C14_DelayPolicy ==
    \A i \in DOMAIN loops :
        /\ (loops[i].tries = 0 /\ loops[i].triesCount = 1) => loops[i].pc # "delay"
        /\ loops[i].triesCount > loops[i].tries + 1 => loops[i].pc # "incRead"

\* The tries recorded for an event id in a queue document: those of its
\* entries in processingEvents and processedEvents.
TriesOf(d, eventId) ==
    {d.processingEvents[k].tries : k \in EntriesOf(d.processingEvents, eventId)}
        \cup {d.processedEvents[k].tries : k \in EntriesOf(d.processedEvents, eventId)}

\* C15 (linearized queue mutations): no step that writes a queue document
\* loses an enqueued entry (every event id of the document stays in it), a
\* tries increment (the tries of no event go down) or an acknowledgement
\* (every event id of processedEvents stays there).
C15_NoLostUpdate ==
    [][\A k \in QueueDocs :
          LET before == disk[QueueFile(k[1], k[2])][1]
              after == disk'[QueueFile(k[1], k[2])][1]
          IN /\ Ids(before.processingEvents) \cup Ids(before.processedEvents)
                    \subseteq Ids(after.processingEvents) \cup Ids(after.processedEvents)
             /\ Ids(before.processedEvents) \subseteq Ids(after.processedEvents)
             /\ \A e \in Ids(before.processingEvents) \cup Ids(before.processedEvents) :
                   \A a \in TriesOf(before, e), b \in TriesOf(after, e) : a <= b]_vars

\* C16 (tries measures attempts started): whenever the handler is invoked
\* for (S, T, e), that is when the write of incrementTries has completed, the
\* persisted tries of e in the queue document of (S, T) is the number of
\* handler invocations started so far for (S, T, e), this one included.
C16_TriesCountsInvocations ==
    [][\A i \in DOMAIN loops :
          IncrementTriesWrite(i) =>
              /\ disk'[QueueFile(loops[i].subscriber, loops[i].topic)] # Null
              /\ TriesOf(disk'[QueueFile(loops[i].subscriber, loops[i].topic)][1],
                         loops[i].parentId)
                    = {handlerCalls'[Triple(loops[i])]}]_vars

\* The events of a persisted event log, none for a missing file.
LogEvents(log) == IF log = Null THEN <<>> ELSE log[1].events

\* C17 (the event log is append-only): every step leaves each event log an
\* extension of what it was, the log holds every event whose publish call
\* has returned, and no event id twice.
C17_LogAppendOnly ==
    [][\A t \in Topics :
          LET before == LogEvents(disk[EventsFile(t)])
              after == LogEvents(disk'[EventsFile(t)])
          IN /\ Len(before) <= Len(after)
             /\ \A k \in DOMAIN before : after[k] = before[k]
             /\ \A e \in EventIds :
                   (pub'[e].pc = "done" /\ pub'[e].topic = t) => e \in Ids(after)
             /\ \A a, b \in DOMAIN after : after[a].eventId = after[b].eventId => a = b]_vars

\* C18 (log before delivery): in every state, every event id that is in a
\* queue document or was handed to a listener is in the persisted event log
\* of its topic.
C18_LoggedBeforeDelivered ==
    /\ \A k \in QueueDocs :
          Ids(Queue(k).processingEvents) \cup Ids(Queue(k).processedEvents)
              \subseteq Ids(LogEvents(disk[EventsFile(k[2])]))
    /\ \A i \in DOMAIN loops :
          loops[i].via = "listener" =>
              loops[i].parentId \in Ids(LogEvents(disk[EventsFile(loops[i].topic)]))

\* subscribe(t) of s has fixed its backlog (the document it found, or the
\* one it backfilled from the log) and has not returned.
BacklogFixed(s, t) == sub[<<s, t>>].pc \in {"writeQueue", "backlog"}

\* C19 (no delivery gap during subscription): an event that publish emits
\* while subscribe(T) of S is in progress with its backlog already fixed,
\* hence without the event, is handed to the listener of S: the emit calls
\* executeEventHandler for (S, T, e).
C19_NoDeliveryGap ==
    [][\A e \in EventIds, s \in Domains :
          (persistEvent(e) /\ BacklogFixed(s, pub[e].topic)) =>
              \E i \in DOMAIN loops' :
                  /\ loops'[i].subscriber = s
                  /\ loops'[i].topic = pub[e].topic
                  /\ loops'[i].parentId = e]_vars

\* C20 (acknowledged is terminal and durable): every event id that the
\* persisted queue document has in processedEvents is in processedEvents,
\* and not in processingEvents, of the document after every step.
C20_AcknowledgedStays ==
    [][\A k \in QueueDocs :
          \A e \in Ids(Queue(k).processedEvents) :
              /\ disk'[QueueFile(k[1], k[2])] # Null
              /\ e \in Ids(disk'[QueueFile(k[1], k[2])][1].processedEvents)
              /\ e \notin Ids(disk'[QueueFile(k[1], k[2])][1].processingEvents)]_vars

\* C21 (acknowledge persists before success is reported): a delivery whose
\* retry loop has stopped as acknowledged has no acknowledgement write still
\* outstanding, and the persisted queue document has its event in
\* processedEvents.
C21_AcknowledgedAfterWrite ==
    \A i \in DOMAIN loops :
        loops[i].acked =>
            /\ loops[i].buf = Null
            /\ disk[QueueFile(loops[i].subscriber, loops[i].topic)] # Null
            /\ loops[i].parentId
                  \in Ids(Queue(<<loops[i].subscriber, loops[i].topic>>).processedEvents)

\* The queue document of call i is missing, or has no entry of its event in
\* processingEvents.
EntryMissing(i) ==
    \/ disk[QueueFile(loops[i].subscriber, loops[i].topic)] = Null
    \/ loops[i].parentId
          \notin Ids(Queue(<<loops[i].subscriber, loops[i].topic>>).processingEvents)

\* C22 (invariant-violation failures): when incrementTries or
\* eventAcknowledged reads a missing queue document, or one without the
\* event in processingEvents, it writes nothing and starts no write, the
\* handler is not invoked, and the attempt has failed: the delivery is not
\* acknowledged and its loop takes the next turn or ends.
C22_MissingEntryFailsAttempt ==
    [][\A i \in DOMAIN loops :
          ((IncrementTriesRead(i) \/ eventAcknowledged(i)) /\ EntryMissing(i)) =>
              /\ disk' = disk
              /\ handlerCalls' = handlerCalls
              /\ loops'[i].calls = loops[i].calls
              /\ loops'[i].buf = Null
              /\ ~loops'[i].acked
              /\ \/ loops'[i].pc = "delay" /\ loops'[i].triesCount = loops[i].triesCount + 1
                 \/ loops'[i].pc = "done" /\ loops[i].triesCount = MaxRetries]_vars

\* C22, witness: the queue document is missing, a delivery has ended
\* unacknowledged after turns in which the handler was not invoked, and a
\* delivery has ended unacknowledged although its handler had resolved.
C22_FailedWithoutHandler ==
    /\ \E i \in DOMAIN loops :
          /\ Ended(loops[i]) /\ ~loops[i].acked
          /\ loops[i].calls < MaxRetries - loops[i].tries
          /\ disk[QueueFile(loops[i].subscriber, loops[i].topic)] = Null
    /\ \E i \in DOMAIN loops :
          Ended(loops[i]) /\ ~loops[i].acked /\ loops[i].resolved

\* C23 (bounded tries): in every persisted state of every queue document
\* every entry of processingEvents and of processedEvents has
\* 0 <= tries <= 5, and the handler invocations for one (S, T, e), summed
\* over all process lifetimes, are at most 5.
C23_TriesBounded ==
    /\ \A k \in QueueDocs :
          /\ \A j \in DOMAIN Queue(k).processingEvents :
                Queue(k).processingEvents[j].tries \in 0..MaxRetries
          /\ \A j \in DOMAIN Queue(k).processedEvents :
                Queue(k).processedEvents[j].tries \in 0..MaxRetries
    /\ \A k \in DOMAIN handlerCalls : handlerCalls[k] <= MaxRetries

\* C24 (no duplicate queue entries): in every persisted state of a queue
\* document each event id occurs at most once in processingEvents.
C24_NoDuplicateEntries ==
    \A k \in QueueDocs :
        \A a, b \in DOMAIN Queue(k).processingEvents :
            Queue(k).processingEvents[a].eventId = Queue(k).processingEvents[b].eventId
                => a = b

====
